---- MODULE Spec2Model ----
(***************************************************************************)
(* Model of tg_bot/modules/helper_funcs/decorators.py: the rate_limit      *)
(* decorator (a sliding-window limiter over the module-level dict          *)
(* message_history, memoised by functools.lru_cache) as it is run by the   *)
(* dispatcher's worker threads (handlers are registered run_async=True).   *)
(*                                                                         *)
(* The wrapper carries no lock.  The interpreter may switch threads        *)
(* between any two of its statements and inside a statement that reads     *)
(* message_history and writes it back, so each such read and write is a    *)
(* step of its own.  The subscript and the list operation of one           *)
(* expression (message_history[user_id].append(...), len(...), the         *)
(* iteration of the comprehension) are one step: an operation on a list    *)
(* object that another thread unbound meanwhile has the effect of the      *)
(* same operation done just before the unbinding, because the new list     *)
(* was computed from an earlier reading.                                   *)
(***************************************************************************)
EXTENDS Integers, Sequences, FiniteSets, TLC

\* ---------------------------------------------------------------- bounds
NThreads == 2      \* worker threads of the dispatcher
NUsers   == 2      \* distinct effective users
NUpdates == 3      \* distinct (update, context) argument pairs of one user
NFuncs   == 2      \* functions of the bot that may carry the decorator
MaxTime  == 1      \* concurrent runs: the clock runs over 0..MaxTime
MaxCalls == 2      \* concurrent runs: calls started in one behaviour
ConcCap  == 1      \* concurrent runs: messages_per_window
ConcWin  == 1      \* concurrent runs: window_seconds
SeqTime  == 2      \* sequential runs: the clock runs over 0..SeqTime
SeqCalls == 3      \* sequential runs: calls started in one behaviour
MaxCap   == 2      \* sequential runs: largest messages_per_window
MaxWin   == 2      \* sequential runs: largest window_seconds
SharedTime  == 2   \* two limiters: the clock runs over 0..SharedTime
SharedCalls == 4   \* two limiters: calls started in one behaviour
SharedCap   == 2   \* two limiters: largest messages_per_window
SharedWin   == 3   \* two limiters: largest window_seconds

MaxApplied  == 2   \* registration: decorator applications in one behaviour

\* ------------------------------------------------------ program constants
maxsize == 1024    \* lru_cache(maxsize=1024)
command_group == 40   \* command(..., group: Optional[int] = 40)
message_group == 60   \* message(..., group: Optional[int] = 60)
DEFAULT_GROUP == 0    \* the group of dispatcher.add_handler(handler)

Threads  == 1..NThreads
Users    == 1..NUsers
Funcs    == 1..NFuncs
NoUser   == 0      \* update.effective_user is None
\* an (update, context) argument pair: the n-th update of user u; the
\* pairs of NoUser are updates without effective user (channel posts)
ArgPairs == (Users \cup {NoUser}) \X (1..NUpdates)

NotDecorated == [messages_per_window |-> -99, window_seconds |-> -99]

\* update.effective_user.id of an argument pair; NoUser when there is none
effective_user(a) == a[1]

VARIABLES
  now,              \* time.time()
  limiters,         \* decorated function -> its (messages_per_window, window_seconds)
  message_history,  \* dict: user id -> list of timestamps
  cache,            \* per wrapper: keys held by its lru_cache, least recent first
  frame,            \* per thread: position and locals of the running wrapper call
  log,              \* history of the calls started, in order of start
  handlers,         \* dispatcher.handlers: group -> list of handlers
  applied           \* history of the applications of kigcmd / kigmsg decorators

vars == <<now, limiters, message_history, cache, frame, log, handlers, applied>>

IdleFrame == [pc |-> "idle", f |-> 0, a |-> <<NoUser, 1>>, id |-> 0, user_id |-> NoUser,
              current_time |-> 0, tmp |-> <<>>]

\* the timestamps recorded for user u (none when the key is absent)
History(u) == IF u \in DOMAIN message_history THEN message_history[u] ELSE <<>>

\* every key bound to the one list that is stored
SetItemShared(d, k, v) == [x \in DOMAIN d \cup {k} |-> v]

\* d[k] = v on a dict
SetItem(d, k, v) == [x \in DOMAIN d \cup {k} |-> IF x = k THEN v ELSE d[x]]

\* ------------------------------------------------------- pure operations
\* the window taken one second too long
InWindowWide(current_time, t, window_seconds) == current_time - t <= window_seconds + 1

\* [t for t in xs if current_time - t <= window_seconds]
InWindow(current_time, t, window_seconds) == current_time - t <= window_seconds

\* the comparison written with <: a timestamp exactly window_seconds old is dropped
PruneStrict(xs, current_time, window_seconds) ==
  LET Keep(t) == current_time - t < window_seconds
  IN SelectSeq(xs, Keep)

Prune(xs, current_time, window_seconds) ==
  LET Keep(t) == InWindow(current_time, t, window_seconds)
  IN SelectSeq(xs, Keep)

\* the comparison written with > (one call too many gets through)
LimitExceededStrict(n, messages_per_window) == n > messages_per_window

\* len(message_history[user_id]) >= messages_per_window
LimitExceeded(n, messages_per_window) == n >= messages_per_window

\* lru_cache bookkeeping: a hit makes the key the most recent one
RemoveKey(s, k) == LET NotK(x) == x # k IN SelectSeq(s, NotK)
InCache(s, k) == \E i \in 1..Len(s) : s[i] = k
CacheTouch(s, k) == Append(RemoveKey(s, k), k)
\* storing a result: nothing if the key got there meanwhile, evict the
\* least recent key when the cache is full
CacheStore(s, k) ==
  IF InCache(s, k) THEN s
  ELSE IF Len(s) >= maxsize THEN Append(Tail(s), k)
  ELSE Append(s, k)

\* -------------------------------------------------------------- log
\* not yet read
Unread == <<-1>>

\* one entry per call: pre is the list the comprehension iterated, seen the
\* list whose length was compared, ran the number of times func was invoked
NewCall(f, a) == [f |-> f, a |-> a, user |-> effective_user(a), time |-> -1,
                  pre |-> Unread, seen |-> Unread, ran |-> 0, status |-> "running"]

\* -------------------------------------------------------------- Init
Policy(c, w) == [messages_per_window |-> c, window_seconds |-> w]

InitState ==
  /\ now = 0
  /\ message_history = << >>
  /\ cache = [f \in Funcs |-> <<>>]
  /\ frame = [t \in Threads |-> IdleFrame]
  /\ log = <<>>
  /\ handlers = << >>
  /\ applied = <<>>

\* the module is imported and one handler carries @rate_limit(ConcCap, ConcWin)
Init ==
  /\ InitState
  /\ limiters = [f \in Funcs |-> IF f = 1 THEN Policy(ConcCap, ConcWin) ELSE NotDecorated]

\* ----------------------------------------------------------- actions
\* time passes
Tick ==
  /\ now' = now + 1
  /\ UNCHANGED <<handlers, applied, limiters, message_history, cache, frame, log>>

\* wrapper(update, context) with a key the lru_cache holds: the memoised
\* None is returned and the body does not run
CacheHit(th, f, a) ==
  /\ frame[th].pc = "idle"
  /\ limiters[f] # NotDecorated
  /\ InCache(cache[f], a)
  /\ cache' = [cache EXCEPT ![f] = CacheTouch(@, a)]
  /\ log' = Append(log, [NewCall(f, a) EXCEPT !.status = "hit"])
  /\ UNCHANGED <<handlers, applied, now, limiters, message_history, frame>>

\* wrapper(update, context) with a key the lru_cache does not hold: the
\* body starts with user_id = update.effective_user.id (thread-local)
CacheMiss(th, f, a) ==
  /\ frame[th].pc = "idle"
  /\ limiters[f] # NotDecorated
  /\ ~InCache(cache[f], a)
  /\ effective_user(a) # NoUser
  /\ frame' = [frame EXCEPT ![th] = [IdleFrame EXCEPT !.pc = "time", !.f = f,
                                       !.a = a, !.id = Len(log) + 1,
                                       !.user_id = effective_user(a)]]
  /\ log' = Append(log, NewCall(f, a))
  /\ UNCHANGED <<handlers, applied, now, limiters, message_history, cache>>

\* the same with update.effective_user None: AttributeError leaves the
\* wrapper, and an exception is not memoised
RaiseNoUser(th, f, a) ==
  /\ frame[th].pc = "idle"
  /\ limiters[f] # NotDecorated
  /\ ~InCache(cache[f], a)
  /\ effective_user(a) = NoUser
  /\ log' = Append(log, [NewCall(f, a) EXCEPT !.status = "error"])
  /\ UNCHANGED <<handlers, applied, now, limiters, message_history, cache, frame>>

\* current_time = time.time()
ReadTime(th) ==
  /\ frame[th].pc = "time"
  /\ frame' = [frame EXCEPT ![th].pc = "key", ![th].current_time = now]
  /\ log' = [log EXCEPT ![frame[th].id].time = now]
  /\ UNCHANGED <<handlers, applied, now, limiters, message_history, cache>>

\* if user_id not in message_history:
CheckKey(th) ==
  /\ frame[th].pc = "key"
  /\ frame' = [frame EXCEPT ![th].pc =
                 IF frame[th].user_id \notin DOMAIN message_history
                 THEN "newkey" ELSE "filter"]
  /\ UNCHANGED <<handlers, applied, now, limiters, message_history, cache, log>>

\* message_history[user_id] = []
CreateKey(th) ==
  /\ frame[th].pc = "newkey"
  /\ message_history' = SetItem(message_history, frame[th].user_id, <<>>)
  /\ frame' = [frame EXCEPT ![th].pc = "filter"]
  /\ UNCHANGED <<handlers, applied, now, limiters, cache, log>>

\* [t for t in message_history[user_id] if current_time - t <= window_seconds]
Filter(th) ==
  /\ frame[th].pc = "filter"
  /\ frame' = [frame EXCEPT ![th].pc = "store",
                 ![th].tmp = Prune(message_history[frame[th].user_id],
                                   frame[th].current_time,
                                   limiters[frame[th].f].window_seconds)]
  /\ log' = [log EXCEPT ![frame[th].id].pre = message_history[frame[th].user_id]]
  /\ UNCHANGED <<handlers, applied, now, limiters, message_history, cache>>

\* message_history[user_id] = <the list the comprehension built>
StoreHistory(th) ==
  /\ frame[th].pc = "store"
  /\ message_history' = SetItem(message_history, frame[th].user_id, frame[th].tmp)
  /\ frame' = [frame EXCEPT ![th].pc = "len", ![th].tmp = <<>>]
  /\ UNCHANGED <<handlers, applied, now, limiters, cache, log>>

\* the timestamp recorded before the length is compared
DenyRecording(th) ==
  /\ frame[th].pc = "len"
  /\ LimitExceeded(Len(message_history[frame[th].user_id]),
                   limiters[frame[th].f].messages_per_window)
  /\ frame' = [frame EXCEPT ![th] = IdleFrame]
  /\ log' = [log EXCEPT ![frame[th].id].seen = message_history[frame[th].user_id],
                        ![frame[th].id].status = "denied"]
  /\ cache' = [cache EXCEPT ![frame[th].f] = CacheStore(@, frame[th].a)]
  /\ message_history' = SetItem(message_history, frame[th].user_id,
                                Append(message_history[frame[th].user_id],
                                       frame[th].current_time))
  /\ UNCHANGED <<handlers, applied, now, limiters>>

\* if len(message_history[user_id]) >= messages_per_window: log.debug and
\* return (None is a normal return value, which the lru_cache stores)
Deny(th) ==
  /\ frame[th].pc = "len"
  /\ LimitExceeded(Len(message_history[frame[th].user_id]),
                   limiters[frame[th].f].messages_per_window)
  /\ frame' = [frame EXCEPT ![th] = IdleFrame]
  /\ log' = [log EXCEPT ![frame[th].id].seen = message_history[frame[th].user_id],
                        ![frame[th].id].status = "denied"]
  /\ cache' = [cache EXCEPT ![frame[th].f] = CacheStore(@, frame[th].a)]
  /\ UNCHANGED <<handlers, applied, now, limiters, message_history>>

\* the return after log.debug left out: the call goes on whatever the length
PassNoReturn(th) ==
  /\ frame[th].pc = "len"
  /\ frame' = [frame EXCEPT ![th].pc = "append"]
  /\ log' = [log EXCEPT ![frame[th].id].seen = message_history[frame[th].user_id]]
  /\ UNCHANGED <<handlers, applied, now, limiters, message_history, cache>>

\* under the limit: go on to the append
Pass(th) ==
  /\ frame[th].pc = "len"
  /\ ~LimitExceeded(Len(message_history[frame[th].user_id]),
                    limiters[frame[th].f].messages_per_window)
  /\ frame' = [frame EXCEPT ![th].pc = "append"]
  /\ log' = [log EXCEPT ![frame[th].id].seen = message_history[frame[th].user_id]]
  /\ UNCHANGED <<handlers, applied, now, limiters, message_history, cache>>

\* message_history[user_id].append(current_time)
AppendTime(th) ==
  /\ frame[th].pc = "append"
  /\ message_history' = SetItem(message_history, frame[th].user_id,
                                Append(message_history[frame[th].user_id],
                                       frame[th].current_time))
  /\ frame' = [frame EXCEPT ![th].pc = "func"]
  /\ UNCHANGED <<handlers, applied, now, limiters, cache, log>>

\* func(update, context) returns: the wrapper returns None, which is memoised
FuncReturn(th) ==
  /\ frame[th].pc = "func"
  /\ frame' = [frame EXCEPT ![th] = IdleFrame]
  /\ log' = [log EXCEPT ![frame[th].id].ran = @ + 1,
                        ![frame[th].id].status = "returned"]
  /\ cache' = [cache EXCEPT ![frame[th].f] = CacheStore(@, frame[th].a)]
  /\ UNCHANGED <<handlers, applied, now, limiters, message_history>>

\* the exception swallowed: the call ends like a normal return, memoised
FuncRaiseMemoised(th) ==
  /\ frame[th].pc = "func"
  /\ frame' = [frame EXCEPT ![th] = IdleFrame]
  /\ log' = [log EXCEPT ![frame[th].id].ran = @ + 1,
                        ![frame[th].id].status = "raised"]
  /\ cache' = [cache EXCEPT ![frame[th].f] = CacheStore(@, frame[th].a)]
  /\ UNCHANGED <<handlers, applied, now, limiters, message_history>>

\* func(update, context) raises: the exception leaves the wrapper and
\* nothing is memoised
FuncRaise(th) ==
  /\ frame[th].pc = "func"
  /\ frame' = [frame EXCEPT ![th] = IdleFrame]
  /\ log' = [log EXCEPT ![frame[th].id].ran = @ + 1,
                        ![frame[th].id].status = "raised"]
  /\ UNCHANGED <<handlers, applied, now, limiters, message_history, cache>>

\* one step of the wrapper body in thread th
Body(th) ==
  \/ ReadTime(th)
  \/ CheckKey(th) \/ CreateKey(th)
  \/ Filter(th) \/ StoreHistory(th)
  \/ Deny(th) \/ Pass(th)
  \/ AppendTime(th)
  \/ FuncReturn(th) \/ FuncRaise(th)

\* updates and users are interchangeable: a call carries an argument pair
\* seen before, or the next update of a user, who is a user seen before or
\* the next user
SeenPair(a) == \E k \in 1..Len(log) : log[k].a = a
SeenUser(u) == \E k \in 1..Len(log) : log[k].a[1] = u
NextUpdate(a) ==
  \/ SeenPair(a)
  \/ /\ a[2] = 1 \/ SeenPair(<<a[1], a[2] - 1>>)
     /\ a[1] <= 1 \/ SeenUser(a[1] - 1)

\* the pool's workers are interchangeable: a call goes to the first idle one
Idle(th) ==
  /\ frame[th].pc = "idle"
  /\ \A t \in Threads : t < th => frame[t].pc # "idle"

\* the calls a worker may start now
Callable(th, f, a) ==
  /\ Idle(th)
  /\ limiters[f] # NotDecorated
  /\ NextUpdate(a)

Next ==
  \/ now < MaxTime /\ Tick
  \/ Len(log) < MaxCalls /\ \E th \in Threads : Idle(th) /\ \E f \in Funcs, a \in ArgPairs :
       Callable(th, f, a) /\ CacheHit(th, f, a)
  \/ Len(log) < MaxCalls /\ \E th \in Threads : Idle(th) /\ \E f \in Funcs, a \in ArgPairs :
       Callable(th, f, a) /\ CacheMiss(th, f, a)
  \/ Len(log) < MaxCalls /\ \E th \in Threads : Idle(th) /\ \E f \in Funcs, a \in ArgPairs :
       Callable(th, f, a) /\ RaiseNoUser(th, f, a)
  \/ \E th \in Threads : Body(th)

\* the worker threads run the handlers concurrently
Spec == Init /\ [][Next]_vars

\* ------------------------------------------------- sequential runs
\* one handler carries @rate_limit(c, w) and its calls come one at a time:
\* a call starts when the one before has finished
InitSeq ==
  /\ InitState
  /\ \E c \in 1..MaxCap, w \in 1..MaxWin :
       limiters = [f \in Funcs |-> IF f = 1 THEN Policy(c, w) ELSE NotDecorated]

NextSeq ==
  \/ now < SeqTime /\ Tick
  \/ Len(log) < SeqCalls /\ Idle(1) /\ \E f \in Funcs, a \in ArgPairs :
       Callable(1, f, a) /\ CacheHit(1, f, a)
  \/ Len(log) < SeqCalls /\ Idle(1) /\ \E f \in Funcs, a \in ArgPairs :
       Callable(1, f, a) /\ CacheMiss(1, f, a)
  \/ Len(log) < SeqCalls /\ Idle(1) /\ \E f \in Funcs, a \in ArgPairs :
       Callable(1, f, a) /\ RaiseNoUser(1, f, a)
  \/ Body(1)

SpecSeq == InitSeq /\ [][NextSeq]_vars

\* ------------------------------------------------- two limiters
\* two handlers carry @rate_limit, the second with a smaller capacity and a
\* shorter window, and their calls come one at a time; both wrappers use the
\* one module-level message_history
InitShared ==
  /\ InitState
  /\ \E c \in 1..(SharedCap - 1), w \in 1..(SharedWin - 1) :
       /\ limiters = [f \in Funcs |-> IF f = 1 THEN Policy(SharedCap, SharedWin)
                                      ELSE IF f = 2 THEN Policy(c, w)
                                      ELSE NotDecorated]

NextShared ==
  \/ now < SharedTime /\ Tick
  \/ Len(log) < SharedCalls /\ Idle(1) /\ \E f \in Funcs, a \in ArgPairs :
       Callable(1, f, a) /\ CacheHit(1, f, a)
  \/ Len(log) < SharedCalls /\ Idle(1) /\ \E f \in Funcs, a \in ArgPairs :
       Callable(1, f, a) /\ CacheMiss(1, f, a)
  \/ Len(log) < SharedCalls /\ Idle(1) /\ \E f \in Funcs, a \in ArgPairs :
       Callable(1, f, a) /\ RaiseNoUser(1, f, a)
  \/ Body(1)

SpecShared == InitShared /\ [][NextShared]_vars

\* ------------------------------------------- construction at run time
\* rate_limit(messages_per_window, window_seconds) applied to function f:
\* the two arguments are closed over as they are
rate_limit(f, messages_per_window, window_seconds) ==
  /\ limiters[f] = NotDecorated
  /\ limiters' = [limiters EXCEPT ![f] = Policy(messages_per_window, window_seconds)]
  /\ UNCHANGED <<handlers, applied, now, message_history, cache, frame, log>>

\* nothing is decorated yet
InitCfg ==
  /\ InitState
  /\ limiters = [f \in Funcs |-> NotDecorated]

\* decorators are applied with any integer arguments, calls come one at a time
NextCfg ==
  \/ \E f \in Funcs, c \in (-1)..ConcCap, w \in (-1)..ConcWin : rate_limit(f, c, w)
  \/ now < MaxTime /\ Tick
  \/ Len(log) < MaxCalls /\ Idle(1) /\ \E f \in Funcs, a \in ArgPairs :
       Callable(1, f, a) /\ CacheHit(1, f, a)
  \/ Len(log) < MaxCalls /\ Idle(1) /\ \E f \in Funcs, a \in ArgPairs :
       Callable(1, f, a) /\ CacheMiss(1, f, a)
  \/ Len(log) < MaxCalls /\ Idle(1) /\ \E f \in Funcs, a \in ArgPairs :
       Callable(1, f, a) /\ RaiseNoUser(1, f, a)
  \/ Body(1)

SpecCfg == InitCfg /\ [][NextCfg]_vars

\* ------------------------------------------------ registration
\* the groups a decorator is given
Groups == {DEFAULT_GROUP, command_group, message_group}

\* how an application goes: the try block adds the handler; or TypeError is
\* raised in the try block before the handler is added (by the handler's
\* constructor or by add_handler, which tests its arguments first) and the
\* except block adds it; or the except block raises TypeError too, which
\* leaves the decorator
Outcomes == {"normal", "fallback", "raised"}

\* a handler object: its class, its callback, and whether the constructor
\* was given pass_chat_data
Handler(cls, callback, pass_chat_data) ==
  [cls |-> cls, callback |-> callback, pass_chat_data |-> pass_chat_data]

\* self._dispatcher.add_handler(handler, group)
add_handler(d, handler, group) ==
  SetItem(d, group, Append(IF group \in DOMAIN d THEN d[group] ELSE <<>>, handler))

\* one application of a decorator: what it was given, the path taken and
\* the function returned (0: none, the exception left the decorator)
Application(decorator, func, group, outcome) ==
  [decorator |-> decorator, func |-> func, group |-> group, path |-> outcome,
   returned |-> IF outcome = "raised" THEN 0 ELSE func]

\* the except block passing the group too
_commandGrouped(func, can_disable, group, outcome) ==
  LET cls == IF can_disable THEN "DisableAbleCommandHandler" ELSE "CommandHandler"
  IN /\ handlers' =
          IF outcome = "normal" THEN add_handler(handlers, Handler(cls, func, FALSE), group)
          ELSE IF outcome = "fallback"
          THEN add_handler(handlers, Handler(cls, func, TRUE), group)
          ELSE handlers
     /\ applied' = Append(applied, Application("command", func, group, outcome))
     /\ UNCHANGED <<now, limiters, message_history, cache, frame, log>>

\* kigcmd(command, ..., can_disable, group)(func): _command(func)
_command(func, can_disable, group, outcome) ==
  LET cls == IF can_disable THEN "DisableAbleCommandHandler" ELSE "CommandHandler"
  IN /\ handlers' =
          IF outcome = "normal" THEN add_handler(handlers, Handler(cls, func, FALSE), group)
          ELSE IF outcome = "fallback"
          THEN add_handler(handlers, Handler(cls, func, TRUE), DEFAULT_GROUP)
          ELSE handlers
     /\ applied' = Append(applied, Application("command", func, group, outcome))
     /\ UNCHANGED <<now, limiters, message_history, cache, frame, log>>

\* kigmsg(pattern, can_disable, ..., group)(func): _message(func)
_message(func, can_disable, group, outcome) ==
  LET cls == IF can_disable THEN "DisableAbleMessageHandler" ELSE "MessageHandler"
  IN /\ handlers' =
          IF outcome = "normal" THEN add_handler(handlers, Handler(cls, func, FALSE), group)
          ELSE IF outcome = "fallback"
          THEN add_handler(handlers, Handler(cls, func, FALSE), DEFAULT_GROUP)
          ELSE handlers
     /\ applied' = Append(applied, Application("message", func, group, outcome))
     /\ UNCHANGED <<now, limiters, message_history, cache, frame, log>>

\* the modules of the bot are imported and their decorators applied
InitReg ==
  /\ InitState
  /\ limiters = [f \in Funcs |-> NotDecorated]

NextReg ==
  \/ Len(applied) < MaxApplied /\
       \E func \in Funcs, can_disable \in BOOLEAN, group \in Groups, outcome \in Outcomes :
         _command(func, can_disable, group, outcome)
  \/ Len(applied) < MaxApplied /\
       \E func \in Funcs, can_disable \in BOOLEAN, group \in Groups, outcome \in Outcomes :
         _message(func, can_disable, group, outcome)

SpecReg == InitReg /\ [][NextReg]_vars

\* ------------------------------------------------------------ claims
Calls == 1..Len(log)
Decorated(f) == limiters[f] # NotDecorated
cap(f) == limiters[f].messages_per_window
win(f) == limiters[f].window_seconds
\* the call ran the wrapped callback
Admitted(k) == log[k].ran > 0
\* the call compared the length of the history with the capacity
Checked(k) == log[k].seen # Unread
Finished(k) == log[k].status # "running"
AllIdle == \A th \in Threads : frame[th].pc = "idle"
Count(xs, x) == Cardinality({i \in 1..Len(xs) : xs[i] = x})
Min(a, b) == IF a <= b THEN a ELSE b

TypeOK ==
  /\ now \in Nat
  /\ DOMAIN message_history \subseteq Users
  /\ \A k \in Calls : log[k].ran \in {0, 1}

\* C1: for every decorated function, every user i and every time t, the
\* admitted calls for i with timestamp in (t - window, t] are at most
\* messages_per_window
C1_QuotaNeverExceeded ==
  \A f \in Funcs, u \in Users, t \in 0..now :
    Decorated(f) =>
      Cardinality({k \in Calls : /\ log[k].f = f /\ log[k].user = u /\ Admitted(k)
                                 /\ t - win(f) < log[k].time /\ log[k].time <= t})
        <= cap(f)

\* C2: when all the calls made are calls for one user that read the same
\* time, starting from an empty history, and all have finished, the number
\* admitted is at most the capacity and at least min(N, capacity)
C2_SimultaneousCalls ==
  (/\ AllIdle /\ Len(log) >= 1
   /\ \A k \in Calls : /\ log[k].f = log[1].f /\ log[k].user = log[1].user
                        /\ log[k].time = log[1].time /\ log[k].time >= 0)
  => LET admitted == Cardinality({k \in Calls : Admitted(k)})
     IN /\ admitted <= cap(log[1].f)
        /\ admitted >= Min(Len(log), cap(log[1].f))

\* C3: once all concurrent calls have finished, every timestamp appended by
\* an admitted call that is still inside the window is in the user's
\* history, as often as it was appended
C3_NoTimestampLost ==
  AllIdle =>
    \A u \in Users, t \in 0..now :
      (\A f \in Funcs : Decorated(f) => now - t <= win(f)) =>
        Count(History(u), t) >=
          Cardinality({k \in Calls : log[k].user = u /\ Admitted(k) /\ log[k].time = t})

\* C9: the callback runs only in a call whose check found fewer than
\* messages_per_window timestamps, exactly once in each such call that
\* got to its end, and never in a denied call
C9_CallbackOnlyWhenAdmitted ==
  \A k \in Calls :
    /\ log[k].ran <= 1
    /\ Admitted(k) => Checked(k) /\ Len(log[k].seen) < cap(log[k].f)
    /\ (Checked(k) /\ Len(log[k].seen) < cap(log[k].f) /\ Finished(k)) => log[k].ran = 1
    /\ (Checked(k) /\ Len(log[k].seen) >= cap(log[k].f)) =>
         log[k].ran = 0 /\ log[k].status = "denied"
    /\ log[k].status = "denied" => Checked(k) /\ Len(log[k].seen) >= cap(log[k].f)

\* an admitted call and a denied call have both finished
C9_Witness ==
  /\ \E k \in Calls : log[k].status = "returned" /\ log[k].ran = 1
  /\ \E k \in Calls : log[k].status = "denied" /\ log[k].ran = 0

\* C4: when exactly messages_per_window calls for a user were made, at
\* increasing times and all admitted, a further call for that user no more
\* than window_seconds after the first of them is denied: the callback does
\* not run and no timestamp is appended
C4_Premise(k) ==
  LET c == log[k]
      prev == {j \in 1..(k - 1) : log[j].f = c.f /\ log[j].user = c.user}
  IN /\ c.user # NoUser /\ Finished(k)
     /\ Cardinality(prev) = cap(c.f)
     /\ \A j \in prev : Admitted(j) /\ Finished(j)
     /\ \A i, j \in prev : i < j => log[i].time < log[j].time
     /\ \/ c.status = "hit"
        \/ \A j \in prev : log[j].time < c.time /\ c.time - log[j].time <= win(c.f)

C4_CallBeyondCapacityDenied ==
  \A k \in Calls :
    C4_Premise(k) =>
      /\ log[k].ran = 0
      /\ log[k].status \in {"denied", "hit"}
      /\ (k = Len(log) /\ AllIdle) =>
           \A t \in 0..now :
             Count(History(log[k].user), t) <=
               Cardinality({j \in 1..(k - 1) : /\ log[j].f = log[k].f
                                               /\ log[j].user = log[k].user
                                               /\ log[j].time = t})

\* the call after messages_per_window admitted ones ran its check and was denied
C4_Witness ==
  \E k \in Calls : C4_Premise(k) /\ log[k].status = "denied" /\ k = Len(log) /\ AllIdle

\* a call for a user who was denied before ran the comprehension over a
\* history whose earliest timestamp is e, at time t with Ok(t, e + window)
C5_Readmitted(k, Late(_, _)) ==
  (/\ log[k].pre # Unread /\ log[k].pre # <<>> /\ Finished(k)
   /\ \E j \in 1..(k - 1) : /\ log[j].f = log[k].f /\ log[j].user = log[k].user
                             /\ log[j].status = "denied"
   /\ Late(log[k].time, log[k].pre[1] + win(log[k].f)))
  => Admitted(k)

\* C5 as stated: a user who was denied is admitted again at any time
\* t' >= earliest timestamp + window, and a timestamp equal to exactly
\* now - window_seconds is not counted against the capacity
C5_ExclusiveBound ==
  LET AtOrAfter(t, d) == t >= d
  IN \A k \in Calls :
       /\ C5_Readmitted(k, AtOrAfter)
       /\ Checked(k) => Count(log[k].seen, log[k].time - win(log[k].f)) = 0

\* C5 amended: a user who was denied is admitted again at any time
\* t' > earliest timestamp + window, and a timestamp equal to exactly
\* now - window_seconds is inside the window: the check counts it
C5_InclusiveBound ==
  LET After(t, d) == t > d
  IN \A k \in Calls :
       /\ C5_Readmitted(k, After)
       /\ Checked(k) => Count(log[k].seen, log[k].time - win(log[k].f))
                           = Count(log[k].pre, log[k].time - win(log[k].f))

\* a user was denied at exactly earliest + window, where the check counted
\* that timestamp, and admitted later
C5_Witness ==
  \E j, k \in Calls :
    /\ j < k /\ log[j].f = log[k].f /\ log[j].user = log[k].user
    /\ log[j].status = "denied" /\ log[j].pre # <<>>
    /\ log[j].time = log[j].pre[1] + win(log[j].f)
    /\ Count(log[j].seen, log[j].time - win(log[j].f)) > 0
    /\ log[k].pre # Unread /\ log[k].pre # <<>>
    /\ log[k].time > log[k].pre[1] + win(log[k].f)
    /\ log[k].status = "returned"

\* the calls of user u alone, replayed in their order from call i on, from
\* the history hist and the memoised keys memo: the history they leave, and
\* whether each of them ends as it ended in the run with the other users
RECURSIVE C6_Replay(_, _, _, _)
C6_Replay(u, i, hist, memo) ==
  IF i > Len(log) THEN [hist |-> hist, same |-> TRUE]
  ELSE IF log[i].user # u \/ ~Finished(i) THEN C6_Replay(u, i + 1, hist, memo)
  ELSE
    LET c == log[i]
        key == <<c.f, c.a>>
        Inside(t) == c.time - t <= win(c.f)
        pruned == SelectSeq(hist, Inside)
    IN IF key \in memo
       THEN LET r == C6_Replay(u, i + 1, hist, memo)
            IN [hist |-> r.hist, same |-> r.same /\ c.status = "hit"]
       ELSE IF Len(pruned) >= cap(c.f)
       THEN LET r == C6_Replay(u, i + 1, pruned, memo \cup {key})
            IN [hist |-> r.hist, same |-> r.same /\ c.status = "denied"]
       ELSE LET r == C6_Replay(u, i + 1, Append(pruned, c.time),
                               IF c.status = "returned" THEN memo \cup {key} ELSE memo)
            IN [hist |-> r.hist, same |-> r.same /\ c.status \in {"returned", "raised"}]

C7_Pruned(k) ==
  LET Inside(t) == log[k].time - t <= win(log[k].f)
  IN SelectSeq(log[k].pre, Inside)

\* C7: a denied call leaves the history pruned and appends nothing, and the
\* next call for the same user at the same instant is denied too and leaves
\* the same history
C7_DenialIdempotent ==
  \A k \in Calls :
    log[k].status = "denied" =>
      /\ log[k].seen = C7_Pruned(k)
      /\ (k = Len(log) /\ AllIdle) => History(log[k].user) = C7_Pruned(k)
      /\ (/\ k < Len(log) /\ Finished(k + 1)
          /\ log[k + 1].f = log[k].f /\ log[k + 1].user = log[k].user
          /\ log[k + 1].time \in {log[k].time, -1}) =>
           /\ log[k + 1].ran = 0
           /\ log[k + 1].status \in {"denied", "hit"}
           /\ (k + 1 = Len(log) /\ AllIdle) => History(log[k].user) = C7_Pruned(k)

\* a denied call was followed by a call for the same user at the same
\* instant, which ran its check
C7_Witness ==
  \E k \in Calls :
    /\ log[k].status = "denied" /\ k + 1 = Len(log) /\ AllIdle
    /\ log[k + 1].f = log[k].f /\ log[k + 1].user = log[k].user
    /\ log[k + 1].time = log[k].time /\ log[k + 1].status = "denied"

\* C8: no limiter with messages_per_window <= 0 or window_seconds <= 0
\* exists and performs an admission check
C8_NoNonPositiveLimiter ==
  \A k \in Calls :
    Checked(k) => cap(log[k].f) > 0 /\ win(log[k].f) > 0

\* C10: every call of the wrapper for an update with a user, a repeated
\* (update, context) pair included, prunes and checks the history
C10_EveryCallChecks ==
  \A k \in Calls :
    (Finished(k) /\ log[k].user # NoUser) => log[k].pre # Unread /\ Checked(k)

\* C11: no call of the wrapper, for an update without effective user
\* included, ends in an error raised by the wrapper's own statements
C11_NeverFails ==
  \A k \in Calls : log[k].status # "error"

\* the timestamps of xs that are not strictly older than current - window,
\* in the order of xs
C12_Kept(xs, current, window) ==
  LET NotOlder(t) == t >= current - window
  IN SelectSeq(xs, NotOlder)

\* C12: the prune of a check (the comprehension and the assignment of its
\* result) leaves of the user's prior history exactly the timestamps
\* t >= now - window_seconds, in their order, and changes nothing else
C12_PruneExact ==
  [][\A th \in Threads :
       /\ (frame[th].pc = "filter" /\ frame'[th].pc = "store") =>
            message_history' = message_history
       /\ (frame[th].pc = "store" /\ frame'[th].pc = "len") =>
            message_history' =
              [message_history EXCEPT ![frame[th].user_id] =
                 C12_Kept(@, frame[th].current_time, win(frame[th].f))]]_vars

\* a prune has just dropped an older timestamp and kept one that is exactly
\* window_seconds old
C12_Witness ==
  \E th \in Threads :
    /\ frame[th].pc = "len"
    /\ LET c == log[frame[th].id]
       IN /\ \E i \in 1..Len(c.pre) : c.pre[i] < c.time - win(c.f)
          /\ \E i \in 1..Len(c.pre) : c.pre[i] = c.time - win(c.f)
          /\ \E i \in 1..Len(message_history[c.user]) :
               message_history[c.user][i] = c.time - win(c.f)
          /\ Len(message_history[c.user]) < Len(c.pre)

\* C13: every user's history holds at most messages_per_window timestamps
\* and is in non-decreasing order, also under concurrent calls
C13_HistoryBounded ==
  \A u \in DOMAIN message_history :
    /\ \A f \in Funcs : Decorated(f) => Len(message_history[u]) <= cap(f)
    /\ \A i, j \in 1..Len(message_history[u]) :
         i < j => message_history[u][i] <= message_history[u][j]

\* C14: a timestamp enters a user's history only by the append of a call
\* that passed the check and leaves it only by the prune of a check for
\* that user; a key of message_history, once present, stays, and when no
\* call is running a user with a key has had a call that passed the check
C14_Lifecycle ==
  [][/\ DOMAIN message_history \subseteq DOMAIN message_history'
     /\ \A u \in Users, t \in 0..now :
          /\ Count(History(u)', t) > Count(History(u), t) =>
               \E th \in Threads :
                 /\ frame[th].pc = "append" /\ frame'[th].pc = "func"
                 /\ frame[th].user_id = u /\ frame[th].current_time = t
                 /\ Len(log[frame[th].id].seen) < cap(frame[th].f)
          /\ Count(History(u)', t) < Count(History(u), t) =>
               \E th \in Threads :
                 /\ frame[th].pc = "store" /\ frame'[th].pc = "len"
                 /\ frame[th].user_id = u
     /\ AllIdle' =>
          \A u \in DOMAIN message_history' :
            \E k \in 1..Len(log') :
              log'[k].user = u /\ log'[k].status \in {"returned", "raised"}]_vars

\* C15: with two functions decorated with different policies, for each of
\* them, every user and every time t, the calls of that function admitted
\* for the user with timestamp in (t - window, t] are at most its
\* messages_per_window, whatever calls were made through the other function
C15_QuotaPerFunction ==
  (\E f, g \in Funcs : Decorated(f) /\ Decorated(g) /\ limiters[f] # limiters[g]) =>
    \A f \in Funcs, u \in Users, t \in 0..now :
      Decorated(f) =>
        Cardinality({k \in Calls : /\ log[k].f = f /\ log[k].user = u
                                   /\ log[k].status \in {"returned", "raised"}
                                   /\ log[k].time > t - win(f) /\ log[k].time <= t})
          <= cap(f)

\* the last timestamp recorded for user u (-1 when there is none)
C16_Last(u) ==
  IF History(u) = <<>> THEN -1 ELSE History(u)[Len(History(u))]

\* C16: while the callback of an admitted call runs, the call's timestamp is
\* already the last one of the user's history; when the callback has raised
\* the timestamp is still there and the call's key is not in the lru_cache,
\* and the next call with the same arguments runs the check again
C16_RaiseKeepsTimestamp ==
  /\ \A th \in Threads :
       frame[th].pc = "func" => C16_Last(frame[th].user_id) = frame[th].current_time
  /\ \A k \in Calls :
       log[k].status = "raised" =>
         /\ (k = Len(log) /\ AllIdle) =>
              /\ C16_Last(log[k].user) = log[k].time
              /\ ~InCache(cache[log[k].f], log[k].a)
         /\ \A j \in (k + 1)..Len(log) :
              (/\ log[j].f = log[k].f /\ log[j].a = log[k].a /\ Finished(j)
               /\ \A i \in (k + 1)..(j - 1) :
                    ~(log[i].f = log[k].f /\ log[i].a = log[k].a)) =>
                /\ log[j].status # "hit"
                /\ log[j].pre # Unread /\ Checked(j)
                /\ j = k + 1 => Count(log[j].pre, log[k].time) >= 1

\* a call whose callback raised was made again with the same arguments and
\* denied, the slot of the failed call being taken
C16_Witness ==
  \E k \in Calls :
    /\ k < Len(log)
    /\ log[k].status = "raised"
    /\ log[k + 1].f = log[k].f /\ log[k + 1].a = log[k].a
    /\ log[k + 1].status = "denied"
    /\ Count(log[k + 1].seen, log[k].time) >= 1

\* the handlers of group g, and the number of handlers in all groups
C17_InGroup(d, g) == IF g \in DOMAIN d THEN d[g] ELSE <<>>
RECURSIVE C17_Total(_, _)
C17_Total(d, gs) ==
  IF gs = {} THEN 0
  ELSE LET g == CHOOSE x \in gs : TRUE
       IN Len(d[g]) + C17_Total(d, gs \ {g})

\* C17: each application of the command or message decorator that returns
\* adds exactly one handler, whose callback is the function, and returns the
\* function: in the group given on the normal path, in the dispatcher's
\* default group on the TypeError fallback path; an application that the
\* exception left adds none
C17_OneHandlerPerApplication ==
  [][\A n \in 1..Len(applied') :
       n > Len(applied) =>
         LET a == applied'[n]
             g == IF a.path = "normal" THEN a.group ELSE DEFAULT_GROUP
             added == C17_InGroup(handlers', g)
         IN IF a.path = "raised"
            THEN handlers' = handlers /\ a.returned = 0
            ELSE /\ a.returned = a.func
                 /\ C17_Total(handlers', DOMAIN handlers')
                      = C17_Total(handlers, DOMAIN handlers) + 1
                 /\ Len(added) = Len(C17_InGroup(handlers, g)) + 1
                 /\ added[Len(added)].callback = a.func
                 /\ \A x \in DOMAIN handlers : x # g => handlers'[x] = handlers[x]]_vars

\* a command was registered on the fallback path with a group other than
\* the default one, and a message handler on the normal path
C17_Witness ==
  /\ \E n \in 1..Len(applied) :
       /\ applied[n].decorator = "command" /\ applied[n].path = "fallback"
       /\ applied[n].group # DEFAULT_GROUP
       /\ applied[n].group \notin DOMAIN handlers
  /\ \E n \in 1..Len(applied) :
       /\ applied[n].decorator = "message" /\ applied[n].path = "normal"
       /\ applied[n].group \in DOMAIN handlers
====
